---- MODULE Spec2Model ----
(***************************************************************************)
(* Model of simtk/openmm/app/gromacsgrofile.py: the line classifiers       *)
(* (_isint, _isfloat, _is_gro_coord, _is_gro_box), the frame builder in    *)
(* GromacsGroFile.__init__ and the accessors of the constructed object.    *)
(*                                                                         *)
(* A line of text is a sequence of one-character strings, with its final   *)
(* "\n" kept, as iteration over an open file yields it.                    *)
(***************************************************************************)
EXTENDS Integers, Sequences, FiniteSets, TLC

\* ------------------------------------------------------------------------
\* Text primitives (the Python str operations the source uses)
\* ------------------------------------------------------------------------

\* Python's None and a present value, kept as one record shape so that the
\* two can be compared.
None == [some |-> FALSE]

Some(v) == [some |-> TRUE, val |-> v]

DIGITS == {"0", "1", "2", "3", "4", "5", "6", "7", "8", "9"}

UPPER == {"A", "B", "C", "D", "E", "F", "G", "H", "I", "J", "K", "L", "M",
          "N", "O", "P", "Q", "R", "S", "T", "U", "V", "W", "X", "Y", "Z"}

SIGNS == {"-", "+"}

EXPCHARS == {"e", "E", "d", "D"}

WHITESPACE == {" ", "\n", "\t"}

DigitVal(c) ==
    CASE c = "0" -> 0 [] c = "1" -> 1 [] c = "2" -> 2 [] c = "3" -> 3
      [] c = "4" -> 4 [] c = "5" -> 5 [] c = "6" -> 6 [] c = "7" -> 7
      [] c = "8" -> 8 [] c = "9" -> 9

Min(a, b) == IF a < b THEN a ELSE b

Max(a, b) == IF a > b THEN a ELSE b

\* s[a:b] with 0-based, end-exclusive, clipped bounds (0 <= a <= b).
Slice(s, a, b) == SubSeq(s, Min(a, Len(s)) + 1, Min(b, Len(s)))

\* s[a:] for a >= 0.
SliceFrom(s, a) == SubSeq(s, Min(a, Len(s)) + 1, Len(s))

RECURSIVE lstrip(_)
lstrip(s) ==
    IF s # << >> /\ Head(s) \in WHITESPACE THEN lstrip(Tail(s)) ELSE s

RECURSIVE rstrip(_)
rstrip(s) ==
    IF s # << >> /\ s[Len(s)] \in WHITESPACE
    THEN rstrip(SubSeq(s, 1, Len(s) - 1))
    ELSE s

\* str.strip()
strip(s) == rstrip(lstrip(s))

\* The leading run of characters of s that are not whitespace.
RECURSIVE FirstWord(_)
FirstWord(s) ==
    IF s = << >> \/ Head(s) \in WHITESPACE
    THEN << >>
    ELSE <<Head(s)>> \o FirstWord(Tail(s))

\* str.split(): the maximal runs of non-whitespace characters, in order.
RECURSIVE split(_)
split(s) ==
    LET t == lstrip(s)
        w == FirstWord(t)
    IN  IF t = << >> THEN << >> ELSE <<w>> \o split(SliceFrom(t, Len(w)))

\* The leading run of characters of s that belong to set cs.
RECURSIVE Span(_, _)
Span(s, cs) ==
    IF s = << >> \/ Head(s) \notin cs
    THEN << >>
    ELSE <<Head(s)>> \o Span(Tail(s), cs)

\* s with a leading character of cs, if any, removed (the regex "[cs]?").
SkipOpt(s, cs) == IF s # << >> /\ Head(s) \in cs THEN Tail(s) ELSE s

\* s with its leading run of digits removed (the regex "[0-9]*").
SkipDigits(s) == SliceFrom(s, Len(Span(s, DIGITS)))

\* The regex anchor "$" matches at the end of the string and also just
\* before a final newline: the candidates for the text "^...$" must match.
DollarForms(word) ==
    IF word # << >> /\ word[Len(word)] = "\n"
    THEN {word, SubSeq(word, 1, Len(word) - 1)}
    ELSE {word}

\* sub('[A-Z0-9]', '', s)
RECURSIVE subUpperDigits(_)
subUpperDigits(s) ==
    IF s = << >> THEN << >>
    ELSE IF Head(s) \in UPPER \cup DIGITS THEN subUpperDigits(Tail(s))
    ELSE <<Head(s)>> \o subUpperDigits(Tail(s))

\* ------------------------------------------------------------------------
\* Line classifier
\* ------------------------------------------------------------------------

\* '[-+]?[0-9]+' matched against the whole of w.
IntPattern(w) ==
    LET r == SkipOpt(w, SIGNS)
    IN  r # << >> /\ \A i \in 1..Len(r) : r[i] \in DIGITS

\* match('^[-+]?[0-9]+$', word)
_isint(word) == \E w \in DollarForms(word) : IntPattern(w)

\* '[-+]?[0-9]*\.?[0-9]*([eEdD][-+]?[0-9]+)?' matched against the whole of w.
FloatPattern(w) ==
    LET r1 == SkipOpt(w, SIGNS)
        r2 == SkipDigits(r1)
        r3 == SkipOpt(r2, {"."})
        r4 == SkipDigits(r3)
    IN  IF r4 = << >>
        THEN TRUE
        ELSE Head(r4) \in EXPCHARS /\ IntPattern(Tail(r4))

\* match('^[-+]?[0-9]*\.?[0-9]*([eEdD][-+]?[0-9]+)?$', word)
_isfloat(word) == \E w \in DollarForms(word) : FloatPattern(w)

\* _is_gro_coord as it would be if the atom index only had to look numeric.
_is_gro_coord_loose(line) ==
    LET sline == split(line)
    IN  IF Len(sline) = 6 \/ Len(sline) = 9
        THEN /\ _isfloat(sline[3])
             /\ _isfloat(sline[4])
             /\ _isfloat(sline[5])
             /\ _isfloat(sline[6])
        ELSE IF Len(sline) = 5 \/ Len(sline) = 8
        THEN /\ _isint(Slice(line, 15, 20))
             /\ _isfloat(sline[3])
             /\ _isfloat(sline[4])
             /\ _isfloat(sline[5])
        ELSE FALSE

_is_gro_coord(line) ==
    LET sline == split(line)
    IN  IF Len(sline) = 6 \/ Len(sline) = 9
        THEN /\ _isint(sline[3])
             /\ _isfloat(sline[4])
             /\ _isfloat(sline[5])
             /\ _isfloat(sline[6])
        ELSE IF Len(sline) = 5 \/ Len(sline) = 8
        THEN /\ _isint(Slice(line, 15, 20))
             /\ _isfloat(sline[3])
             /\ _isfloat(sline[4])
             /\ _isfloat(sline[5])
        ELSE FALSE

_is_gro_box(line) ==
    LET sline == split(line)
    IN  IF Len(sline) = 9 /\ \A i \in 1..Len(sline) : _isfloat(sline[i])
        THEN TRUE
        ELSE IF Len(sline) = 3 /\ \A i \in 1..Len(sline) : _isfloat(sline[i])
        THEN TRUE
        ELSE FALSE

\* ------------------------------------------------------------------------
\* Numeric conversion: int(), float(), and the values they produce
\* ------------------------------------------------------------------------

ValueError == "ValueError"

KeyError == "KeyError"

IndexError == "IndexError"

\* The number a run of decimal digits denotes.
RECURSIVE DigitsVal(_)
DigitsVal(ds) ==
    IF ds = << >> THEN 0
    ELSE 10 * DigitsVal(SubSeq(ds, 1, Len(ds) - 1)) + DigitVal(ds[Len(ds)])

\* int(s) raises ValueError unless s, surrounding whitespace ignored, is an
\* optional sign followed by at least one digit.
int_raises(s) == ~IntPattern(strip(s))

\* int(s), where it does not raise.
int(s) ==
    LET t == strip(s)
        r == SkipOpt(t, SIGNS)
    IN  IF Head(t) = "-" THEN 0 - DigitsVal(r) ELSE DigitsVal(r)

\* A float is kept as the decimal m * 10^e with m not a multiple of 10, so
\* that two texts denote the same float exactly when they are numerically
\* equal ("1.0", "1" and "10e-1" are one value).
RECURSIVE Normalise(_, _)
Normalise(m, e) ==
    IF m = 0 THEN [m |-> 0, e |-> 0]
    ELSE IF m % 10 = 0 THEN Normalise(m \div 10, e + 1)
    ELSE [m |-> m, e |-> e]

\* float(s) raises ValueError unless s, surrounding whitespace ignored, is a
\* sign (optional), digits with an optional point (at least one digit) and an
\* optional e/E exponent.  A 'd' exponent, a bare sign, a bare point and the
\* empty string raise.
float_raises(s) ==
    LET t  == strip(s)
        r1 == SkipOpt(t, SIGNS)
        ip == Span(r1, DIGITS)
        r3 == SkipOpt(SliceFrom(r1, Len(ip)), {"."})
        fp == Span(r3, DIGITS)
        r4 == SliceFrom(r3, Len(fp))
    IN  IF Len(ip) + Len(fp) = 0 THEN TRUE
        ELSE IF r4 = << >> THEN FALSE
        ELSE ~(Head(r4) \in {"e", "E"} /\ IntPattern(Tail(r4)))

\* float(s), where it does not raise.
float(s) ==
    LET t    == strip(s)
        r1   == SkipOpt(t, SIGNS)
        ip   == Span(r1, DIGITS)
        r3   == SkipOpt(SliceFrom(r1, Len(ip)), {"."})
        fp   == Span(r3, DIGITS)
        r4   == SliceFrom(r3, Len(fp))
        mant == DigitsVal(ip \o fp)
        ex   == IF r4 = << >> THEN 0 ELSE int(Tail(r4))
    IN  Normalise(IF Head(t) = "-" THEN 0 - mant ELSE mant, ex - Len(fp))

\* Vec3(x, y, z)
Vec3(x, y, z) == [x |-> x, y |-> y, z |-> z]

\* value * nanometers
Quantity(value) == [value |-> value, unit |-> "nanometers"]

\* numpy.array(list of Vec3): one row of three numbers per vector.
numpy_array(vs) == [rows |-> [i \in 1..Len(vs) |-> <<vs[i].x, vs[i].y, vs[i].z>>]]

\* ------------------------------------------------------------------------
\* Element table (module element, imported as elem)
\* ------------------------------------------------------------------------

ElementSymbols ==
    {<<"H">>, <<"C">>, <<"N">>, <<"O">>, <<"N", "a">>, <<"C", "l">>}

\* elem.get_by_symbol(symbol): the element of that symbol; KeyError is raised
\* for a symbol the table does not hold.
get_by_symbol_raises(symbol) == symbol \notin ElementSymbols

get_by_symbol(symbol) == [element |-> symbol]

\* ------------------------------------------------------------------------
\* Input lines
\* ------------------------------------------------------------------------

Spaces(n) == [i \in 1..n |-> " "]

\* s right-justified / left-justified in a field of width w.
Rj(s, w) == Spaces(w - Len(s)) \o s

Lj(s, w) == s \o Spaces(w - Len(s))

\* An atom record in the fixed columns of the format: residue id (5),
\* residue name (5), atom name (5), atom index (5), x, y, z (8 each).
AtomLine(resnum, resnm, atomnm, atomnum, x, y, z) ==
    Rj(resnum, 5) \o Lj(resnm, 5) \o Rj(atomnm, 5) \o Rj(atomnum, 5)
        \o Rj(x, 8) \o Rj(y, 8) \o Rj(z, 8) \o <<"\n">>

SOL == <<"S", "O", "L">>

X1 == <<"0", ".", "1", "2", "6">>

X2 == <<"1", ".", "5", "0">>

LineTitle == <<"w", "a", "t", "e", "r", "\n">>

LineBlank == <<"\n">>

LineCount0 == <<"0", "\n">>

LineCount1 == <<" ", " ", " ", " ", "1", "\n">>

LineCount2 == <<"2", "\n">>

\* "    1SOL    HW1    1   0.126   0.126   0.126": six tokens
LineHW1 == AtomLine(<<"1">>, SOL, <<"H", "W", "1">>, <<"1">>, X1, X1, X1)

\* an atom whose name is a single character
LineC == AtomLine(<<"2">>, <<"A", "L", "A">>, <<"C">>, <<"2">>, X1, X2, X1)

\* a five-digit atom index runs into the atom name, leaving five tokens; the
\* name reduces to a symbol the element table does not hold
LineMW == AtomLine(<<"1">>, SOL, <<"M", "W">>,
                   <<"1", "0", "0", "0", "0">>, X2, X2, X1)

\* "   1.86206   1.86206   1.86206"
LineBox3 ==
    LET b == Rj(<<"1", ".", "8", "6", "2", "0", "6">>, 10)
    IN  b \o b \o b \o <<"\n">>

\* a triclinic box, nine reals
LineBox9 ==
    LET a == Rj(<<"2", ".", "0">>, 5)
        z == Rj(<<"0", ".", "0">>, 5)
    IN  a \o a \o a \o z \o z \o z \o z \o z \o z \o <<"\n">>

\* a triclinic box whose lengths are written without a decimal point
LineBox9Int ==
    LET a  == Rj(<<"2">>, 5)
        z  == Rj(<<"0">>, 5)
        z8 == Rj(<<"0", ".", "0">>, 8)
    IN  a \o a \o a \o z \o z8 \o z8 \o z8 \o z8 \o z8 \o <<"\n">>

\* three tokens the permissive pattern accepts, one of which float() rejects
LineBoxD == <<"1", ".", "0", " ", "1", ".", "0", " ", "1", "d", "1", "\n">>

Lines ==
    {LineTitle, LineBlank, LineCount0, LineCount1, LineCount2, LineHW1,
     LineC, LineMW, LineBox3, LineBox9, LineBox9Int, LineBoxD}

\* The title line is stored without being looked at: two texts stand for it,
\* one of them a line that would be a box line elsewhere.
TitleLines == {LineTitle, LineBox3}

\* ------------------------------------------------------------------------
\* Bounds
\* ------------------------------------------------------------------------

\* The longest input, in lines, that is read.
MaxLines == 7

\* The largest frame index an accessor is called with (the smallest is -1).
MaxFrameArg == 2

\* ------------------------------------------------------------------------
\* State
\* ------------------------------------------------------------------------

VARIABLES
    pc,         \* "parsing": in the loop of __init__; "constructed": __init__
                \* returned; "failed": __init__ raised
    stream,     \* the file object of open(file): "open" or "closed"
    consumed,   \* the lines the loop has taken from the stream, in order
    comms, xyzs, elements, atomname, resid, resname, boxes, xyz, ln, frame,
    na,         \* the locals of __init__ (na is unbound until the first count
                \* line; it is not read before that)
    error,      \* the exception __init__ raised
    self,       \* the fields of the constructed object
    ret         \* the outcome of the latest accessor call

locals == <<comms, xyzs, elements, atomname, resid, resname, boxes, xyz, ln,
            frame, na>>

vars == <<pc, stream, consumed, comms, xyzs, elements, atomname, resid,
          resname, boxes, xyz, ln, frame, na, error, self, ret>>

NoError == [type |-> "", text |-> "", line |-> << >>]

NoObject == [exists |-> FALSE]

NoCall == [op |-> "", asNumpy |-> FALSE, frame |-> 0, raised |-> "",
           value |-> << >>]

Init ==
    /\ pc = "parsing"
    /\ stream = "open"
    /\ consumed = << >>
    /\ xyzs = << >>
    /\ elements = << >>
    /\ atomname = << >>
    /\ comms = << >>
    /\ resid = << >>
    /\ resname = << >>
    /\ boxes = << >>
    /\ xyz = << >>
    /\ ln = 0
    /\ frame = 0
    /\ na = 0
    /\ error = NoError
    /\ self = NoObject
    /\ ret = NoCall

\* ------------------------------------------------------------------------
\* GromacsGroFile.__init__: the loop over the lines of the file
\* ------------------------------------------------------------------------

\* The loop takes the next line of the stream.
Takes(line) ==
    /\ pc = "parsing"
    /\ Len(consumed) < MaxLines
    /\ consumed' = Append(consumed, line)

\* An exception leaves __init__: no object is constructed.
Fails(type, text, line) ==
    /\ pc' = "failed"
    /\ error' = [type |-> type, text |-> text, line |-> line]
    /\ UNCHANGED <<self, ret>>

\* An exception raised inside the loop.  Nothing in __init__ closes the file
\* object, and the frame the exception carries still refers to it: the stream
\* stays open.
Raises(type, text, line) ==
    /\ Fails(type, text, line)
    /\ UNCHANGED stream

\* The iteration ends normally: ln += 1 and on to the next line.
Continues(nextln) ==
    /\ ln' = nextln
    /\ UNCHANGED <<pc, error, stream, self, ret>>

\* if ln == 0: comms.append(line.strip())
ReadTitle(line) ==
    /\ Takes(line)
    /\ ln = 0
    /\ comms' = Append(comms, strip(line))
    /\ Continues(ln + 1)
    /\ UNCHANGED <<xyzs, elements, atomname, resid, resname, boxes, xyz,
                   frame, na>>

\* elif ln == 1: na = int(line.strip())
ReadCount(line) ==
    /\ Takes(line)
    /\ ln = 1
    /\ IF int_raises(strip(line))
       THEN /\ Raises(ValueError, "invalid literal for int()", strip(line))
            /\ UNCHANGED locals
       ELSE /\ na' = int(strip(line))
            /\ Continues(ln + 1)
            /\ UNCHANGED <<comms, xyzs, elements, atomname, resid, resname,
                           boxes, xyz, frame>>

\* The four header fields of an atom record:
\* [line[i*5:i*5+5].strip() for i in range(4)]
HeaderField(line, i) == strip(Slice(line, i * 5, i * 5 + 5))

\* The text of coordinate i (0, 1, 2): line[20+i*8:28+i*8]
CoordField(line, i) == Slice(line, 20 + i * 8, 28 + i * 8)

\* thiselem[0] + sub('[A-Z0-9]', '', thiselem[1:])
ElementSymbol(thiselem) == <<thiselem[1]>> \o subUpperDigits(SliceFrom(thiselem, 1))

\* The elements list after the element step for an atom name: the lookup and
\* the append happen only under "if len(thiselem) > 1".
ElementsAfter(els, thisatomname) ==
    IF Len(thisatomname) > 1
    THEN IF get_by_symbol_raises(ElementSymbol(thisatomname))
         THEN Append(els, None)
         ELSE Append(els, Some(get_by_symbol(ElementSymbol(thisatomname))))
    ELSE els

\* float(line[20+i*8:28+i*8]) raises for one of i = 0, 1, 2.
PosRaises(line) == \E i \in 0..2 : float_raises(CoordField(line, i))

\* The first coordinate field, in order, whose conversion raises.
BadCoordField(line) ==
    CoordField(line, CHOOSE i \in 0..2 :
        /\ float_raises(CoordField(line, i))
        /\ \A j \in 0..(i - 1) : ~float_raises(CoordField(line, j)))

\* Vec3(pos[0], pos[1], pos[2])
PosOf(line) ==
    Vec3(float(CoordField(line, 0)), float(CoordField(line, 1)),
         float(CoordField(line, 2)))

\* ReadCoord as it would be if the topology were captured in every frame.
ReadCoordEveryFrame(line) ==
    /\ Takes(line)
    /\ ln >= 2
    /\ _is_gro_coord(line)
    /\ LET thisresnum   == HeaderField(line, 0)
           thisresname  == HeaderField(line, 1)
           thisatomname == HeaderField(line, 2)
       IN  /\ resname' = Append(resname, thisresname)
           /\ IF int_raises(thisresnum)
              THEN /\ Raises(ValueError, "invalid literal for int()", thisresnum)
                   /\ UNCHANGED <<comms, xyzs, elements, atomname, resid,
                                  boxes, xyz, ln, frame, na>>
              ELSE /\ resid' = Append(resid, int(thisresnum))
                   /\ atomname' = Append(atomname, thisatomname)
                   /\ elements' = ElementsAfter(elements, thisatomname)
                   /\ IF PosRaises(line)
                      THEN /\ Raises(ValueError,
                                     "could not convert string to float",
                                     BadCoordField(line))
                           /\ UNCHANGED <<comms, xyzs, boxes, xyz, ln, frame, na>>
                      ELSE /\ xyz' = Append(xyz, PosOf(line))
                           /\ Continues(ln + 1)
                           /\ UNCHANGED <<comms, xyzs, boxes, frame, na>>

\* elif _is_gro_coord(line): the topology of the atom if frame == 0, then its
\* position.  The branch is taken at every ln >= 2.
ReadCoord(line) ==
    /\ Takes(line)
    /\ ln >= 2
    /\ _is_gro_coord(line)
    /\ LET thisresnum   == HeaderField(line, 0)
           thisresname  == HeaderField(line, 1)
           thisatomname == HeaderField(line, 2)
       IN  /\ resname' = IF frame = 0 THEN Append(resname, thisresname)
                         ELSE resname
           /\ IF frame = 0 /\ int_raises(thisresnum)
              THEN /\ Raises(ValueError, "invalid literal for int()", thisresnum)
                   /\ UNCHANGED <<comms, xyzs, elements, atomname, resid,
                                  boxes, xyz, ln, frame, na>>
              ELSE /\ resid' = IF frame = 0 THEN Append(resid, int(thisresnum))
                               ELSE resid
                   /\ atomname' = IF frame = 0
                                  THEN Append(atomname, thisatomname)
                                  ELSE atomname
                   /\ elements' = IF frame = 0
                                  THEN ElementsAfter(elements, thisatomname)
                                  ELSE elements
                   /\ IF PosRaises(line)
                      THEN /\ Raises(ValueError,
                                     "could not convert string to float",
                                     BadCoordField(line))
                           /\ UNCHANGED <<comms, xyzs, boxes, xyz, ln, frame, na>>
                      ELSE /\ xyz' = Append(xyz, PosOf(line))
                           /\ Continues(ln + 1)
                           /\ UNCHANGED <<comms, xyzs, boxes, frame, na>>

\* [float(i) for i in sline] raises for one of the tokens.
BoxRaises(sline) == \E i \in 1..Len(sline) : float_raises(sline[i])

\* The first token, in order, whose conversion raises.
BadBoxToken(sline) ==
    sline[CHOOSE i \in 1..Len(sline) :
        /\ float_raises(sline[i])
        /\ \A j \in 1..(i - 1) : ~float_raises(sline[j])]

\* tuple([float(i) for i in sline])
BoxOf(sline) == [i \in 1..Len(sline) |-> float(sline[i])]

\* ReadBox as it would be if a box line sealed the frame wherever it stands.
ReadBoxAnywhere(line) ==
    /\ Takes(line)
    /\ ln >= 2
    /\ ~_is_gro_coord(line)
    /\ _is_gro_box(line)
    /\ LET sline == split(line)
       IN  IF BoxRaises(sline)
           THEN /\ Raises(ValueError, "could not convert string to float",
                          BadBoxToken(sline))
                /\ UNCHANGED locals
           ELSE /\ boxes' = Append(boxes, Quantity(BoxOf(sline)))
                /\ xyzs' = Append(xyzs, Quantity(xyz))
                /\ xyz' = << >>
                /\ frame' = frame + 1
                /\ Continues(0)
                /\ UNCHANGED <<comms, elements, atomname, resid, resname, na>>

\* elif _is_gro_box(line) and ln == na + 2: the frame is sealed.
ReadBox(line) ==
    /\ Takes(line)
    /\ ln >= 2
    /\ ~_is_gro_coord(line)
    /\ _is_gro_box(line) /\ ln = na + 2
    /\ LET sline == split(line)
       IN  IF BoxRaises(sline)
           THEN /\ Raises(ValueError, "could not convert string to float",
                          BadBoxToken(sline))
                /\ UNCHANGED locals
           ELSE /\ boxes' = Append(boxes, Quantity(BoxOf(sline)))
                /\ xyzs' = Append(xyzs, Quantity(xyz))
                /\ xyz' = << >>
                /\ frame' = frame + 1
                /\ Continues(0)
                /\ UNCHANGED <<comms, elements, atomname, resid, resname, na>>

\* Unexpected as it would be if the parser skipped a line it cannot place.
UnexpectedSkips(line) ==
    /\ Takes(line)
    /\ ln >= 2
    /\ ~_is_gro_coord(line)
    /\ ~(_is_gro_box(line) /\ ln = na + 2)
    /\ Continues(ln + 1)
    /\ UNCHANGED <<comms, xyzs, elements, atomname, resid, resname, boxes,
                   xyz, frame, na>>

\* else: raise Exception("Unexpected line in .gro file: "+line)
Unexpected(line) ==
    /\ Takes(line)
    /\ ln >= 2
    /\ ~_is_gro_coord(line)
    /\ ~(_is_gro_box(line) /\ ln = na + 2)
    /\ Raises("Exception", "Unexpected line in .gro file: ", line)
    /\ UNCHANGED locals

\* EndOfInput as it would be if the atoms of an unfinished frame were kept as
\* a last frame.
EndOfInputFlush ==
    /\ pc = "parsing"
    /\ LET all == IF xyz = << >> THEN xyzs ELSE Append(xyzs, Quantity(xyz))
       IN  IF all = << >>
           THEN /\ Fails(IndexError, "list index out of range", << >>)
                /\ stream' \in {"open", "closed"}
                /\ UNCHANGED <<consumed, locals>>
           ELSE /\ pc' = "constructed"
                /\ self' = [exists            |-> TRUE,
                            positions         |-> all[1],
                            elements          |-> elements,
                            atomNames         |-> atomname,
                            residueIds        |-> resid,
                            residueNames      |-> resname,
                            _positions        |-> all,
                            _unitCellDimensions |-> boxes,
                            _numpyPositions   |-> None]
                /\ stream' \in {"open", "closed"}
                /\ UNCHANGED <<consumed, locals, error, ret>>

\* EndOfInput as it would be if an input without a sealed frame gave an object
\* with no frames.
EndOfInputEmptyModel ==
    /\ pc = "parsing"
    /\ pc' = "constructed"
    /\ self' = [exists            |-> TRUE,
                positions         |-> IF xyzs = << >> THEN Quantity(<< >>)
                                      ELSE xyzs[1],
                elements          |-> elements,
                atomNames         |-> atomname,
                residueIds        |-> resid,
                residueNames      |-> resname,
                _positions        |-> xyzs,
                _unitCellDimensions |-> boxes,
                _numpyPositions   |-> None]
    /\ stream' \in {"open", "closed"}
    /\ UNCHANGED <<consumed, locals, error, ret>>

\* EndOfInput as it would be if the public positions were those of the latest
\* frame.
EndOfInputLatest ==
    /\ pc = "parsing"
    /\ IF xyzs = << >>
       THEN /\ Fails(IndexError, "list index out of range", << >>)
            /\ stream' \in {"open", "closed"}
            /\ UNCHANGED <<consumed, locals>>
       ELSE /\ pc' = "constructed"
            /\ self' = [exists            |-> TRUE,
                        positions         |-> xyzs[Len(xyzs)],
                        elements          |-> elements,
                        atomNames         |-> atomname,
                        residueIds        |-> resid,
                        residueNames      |-> resname,
                        _positions        |-> xyzs,
                        _unitCellDimensions |-> boxes,
                        _numpyPositions   |-> None]
            /\ stream' \in {"open", "closed"}
            /\ UNCHANGED <<consumed, locals, error, ret>>

\* The stream is exhausted: the loop ends and the fields of the object are
\* assigned, self.positions = xyzs[0] first.  The loop drops its reference to
\* the file object without closing it: whether the stream is closed by now
\* depends on when the interpreter reclaims the object.
EndOfInput ==
    /\ pc = "parsing"
    /\ IF xyzs = << >>
       THEN /\ Fails(IndexError, "list index out of range", << >>)
            /\ stream' \in {"open", "closed"}
            /\ UNCHANGED <<consumed, locals>>
       ELSE /\ pc' = "constructed"
            /\ self' = [exists            |-> TRUE,
                        positions         |-> xyzs[1],
                        elements          |-> elements,
                        atomNames         |-> atomname,
                        residueIds        |-> resid,
                        residueNames      |-> resname,
                        _positions        |-> xyzs,
                        _unitCellDimensions |-> boxes,
                        _numpyPositions   |-> None]
            /\ stream' \in {"open", "closed"}
            /\ UNCHANGED <<consumed, locals, error, ret>>

\* ------------------------------------------------------------------------
\* Accessors of the constructed object
\* ------------------------------------------------------------------------

\* list[i] is defined for -len <= i < len; a negative i counts from the end.
InRange(list, i) == 0 - Len(list) <= i /\ i < Len(list)

\* The 1-based position that list[i] denotes.
Pos(list, i) == IF i < 0 THEN Len(list) + i + 1 ELSE i + 1

Returns(op, asNumpy, f, value) ==
    ret' = [op |-> op, asNumpy |-> asNumpy, frame |-> f, raised |-> "",
            value |-> <<value>>]

CallRaises(op, asNumpy, f, type) ==
    ret' = [op |-> op, asNumpy |-> asNumpy, frame |-> f, raised |-> type,
            value |-> << >>]

\* return len(self._positions)
getNumFrames ==
    /\ pc = "constructed"
    /\ Returns("getNumFrames", FALSE, 0, Len(self._positions))
    /\ UNCHANGED <<pc, stream, consumed, locals, error, self>>

\* The cache after "if self._numpyPositions is None: ... = [None]*len(...)".
CacheList(obj) ==
    IF obj._numpyPositions.some
    THEN obj._numpyPositions.val
    ELSE [i \in 1..Len(obj._positions) |-> None]

\* Quantity(numpy.array(self._positions[frame].value_in_unit(nanometers)),
\*          nanometers)
AsNumpy(positions) == Quantity(numpy_array(positions.value))

\* CacheFilled as it would be if the array were always made from frame 0.
CacheFilledFromFirst(obj, f) ==
    LET cache == CacheList(obj)
        k     == Pos(cache, f)
    IN  IF cache[k].some
        THEN cache
        ELSE [cache EXCEPT ![k] = Some(AsNumpy(obj._positions[1]))]

\* CacheFilled as it would be if a call made the arrays of all the frames.
CacheFilledAll(obj, f) ==
    LET cache == CacheList(obj)
    IN  [k \in 1..Len(cache) |->
            IF cache[k].some THEN cache[k]
            ELSE Some(AsNumpy(obj._positions[k]))]

\* The cache after "if self._numpyPositions[frame] is None: ... = Quantity(..)".
CacheFilled(obj, f) ==
    LET cache == CacheList(obj)
        k     == Pos(cache, f)
    IN  IF cache[k].some
        THEN cache
        ELSE [cache EXCEPT ![k] = Some(AsNumpy(obj._positions[k]))]

\* getPositions(asNumpy, frame).  numpy is taken to be importable.
getPositions(asNumpy, f) ==
    /\ pc = "constructed"
    /\ IF asNumpy
       THEN IF InRange(CacheList(self), f)
            THEN /\ self' = [self EXCEPT
                                !._numpyPositions = Some(CacheFilled(self, f))]
                 /\ Returns("getPositions", asNumpy, f,
                            CacheFilled(self, f)[Pos(CacheList(self), f)].val)
            ELSE /\ self' = [self EXCEPT
                                !._numpyPositions = Some(CacheList(self))]
                 /\ CallRaises("getPositions", asNumpy, f, IndexError)
       ELSE /\ IF InRange(self._positions, f)
               THEN Returns("getPositions", asNumpy, f,
                            self._positions[Pos(self._positions, f)])
               ELSE CallRaises("getPositions", asNumpy, f, IndexError)
            /\ UNCHANGED self
    /\ UNCHANGED <<pc, stream, consumed, locals, error>>

\* getUnitCellDimensions as it would be if a negative frame were refused.
getUnitCellDimensionsFromZero(f) ==
    /\ pc = "constructed"
    /\ IF 0 <= f /\ f < Len(self._unitCellDimensions)
       THEN Returns("getUnitCellDimensions", FALSE, f,
                    self._unitCellDimensions[f + 1])
       ELSE CallRaises("getUnitCellDimensions", FALSE, f, IndexError)
    /\ UNCHANGED <<pc, stream, consumed, locals, error, self>>

\* return self._unitCellDimensions[frame]
getUnitCellDimensions(f) ==
    /\ pc = "constructed"
    /\ IF InRange(self._unitCellDimensions, f)
       THEN Returns("getUnitCellDimensions", FALSE, f,
                    self._unitCellDimensions[Pos(self._unitCellDimensions, f)])
       ELSE CallRaises("getUnitCellDimensions", FALSE, f, IndexError)
    /\ UNCHANGED <<pc, stream, consumed, locals, error, self>>

\* ------------------------------------------------------------------------
\* Specification
\* ------------------------------------------------------------------------

FrameArgs == (0 - 1)..MaxFrameArg

\* One iteration of the loop of __init__ over a line of ls (a title of ts), or
\* the end of the loop.
ConstructFrom(ls, ts) ==
    \/ \E line \in ts : ReadTitle(line)
    \/ \E line \in ls : ReadCount(line)
    \/ \E line \in ls : ReadCoord(line)
    \/ \E line \in ls : ReadBox(line)
    \/ \E line \in ls : Unexpected(line)
    \/ EndOfInput

\* A call of an accessor on the constructed object.
Access ==
    \/ getNumFrames
    \/ \E asNumpy \in BOOLEAN, f \in FrameArgs : getPositions(asNumpy, f)
    \/ \E f \in FrameArgs : getUnitCellDimensions(f)

\* ---- The constructor over box lines with a token that does not convert ----

\* Nine numeric-looking tokens, the third an integer and the last with a 'd'
\* exponent, laid out so that columns 20-43 hold three numbers.
LineBox9IntD ==
    Rj(<<"2">>, 5) \o Rj(<<"2">>, 5) \o Rj(<<"2">>, 5) \o Rj(<<"0">>, 5)
        \o Rj(<<"0", ".", "0">>, 8) \o Rj(<<"0", ".", "0">>, 8)
        \o Rj(<<"0", ".", "0">>, 8) \o Rj(<<"0", ".", "0">>, 8)
        \o Rj(<<"1", "d", "1">>, 8) \o <<"\n">>

BoxTokenLines ==
    {LineTitle, LineCount0, LineCount1, LineHW1, LineBox3, LineBoxD,
     LineBox9IntD}

NextBoxTokens == ConstructFrom(BoxTokenLines, {LineTitle})

SpecBoxTokens == Init /\ [][NextBoxTokens]_vars

\* ---- Lines given to the classifier on its own ----

\* The first fifteen columns of an atom record: residue id, residue name and
\* atom name ("1SOL" and "OW" once split).
RecordHead == Rj(<<"1">>, 5) \o Lj(SOL, 5) \o Rj(<<"O", "W">>, 5)

\* Contents of the five columns of the atom index: an integer, an integer that
\* fills the field and so joins the atom name, a signed integer, a decimal
\* number, digits followed by a letter, and blanks.
IndexFields ==
    {Rj(<<"1">>, 5), <<"1", "0", "0", "0", "0">>, Rj(<<"-", "7">>, 5),
     Rj(<<"1", "2", ".", "0">>, 5), Rj(<<"1", "a">>, 5), Spaces(5)}

\* Contents of the eight columns of a coordinate or velocity: a decimal
\* number, a word, a number with a 'd' exponent, a bare sign, and blanks.
NumberFields ==
    {Rj(X1, 8), Rj(<<"a", "b", "c">>, 8), Rj(<<"1", "d", "-", "1">>, 8),
     Rj(<<"+">>, 8), Spaces(8)}

\* What follows the coordinates: nothing, one field, or three velocities.
TailFields ==
    {<< >>, Rj(X2, 8), Rj(X2, 8) \o Rj(X2, 8) \o Rj(X2, 8)}

\* Lines not laid out in columns: five tokens ending at column 19, with and
\* without the newline; six tokens whose third is "12.0"; six and five tokens
\* separated by single blanks.
FreeLines ==
    {<<"a", " ", "b", " ", "1", " ", "2", " ", "1", "2", "3", "4", "5", "6", "7", "1", "2", "3", "4", "\n">>,
     <<"a", " ", "b", " ", "1", " ", "2", " ", "1", "2", "3", "4", "5", "6", "7", "1", "2", "3", "4">>,
     <<"1", "S", "O", "L", " ", "O", "W", " ", "1", "2", ".", "0", " ", "0", ".", "1", " ", "0", ".", "2", " ", "0", ".", "3", "\n">>,
     <<"1", "S", "O", "L", " ", "O", "W", " ", "1", "2", " ", "0", ".", "1", " ", "0", ".", "2", " ", "0", ".", "3", "\n">>,
     <<"1", "S", "O", "L", " ", "O", "W", " ", "0", ".", "1", " ", "0", ".", "2", " ", "0", ".", "3", "\n">>}

ClassifyLines ==
    {RecordHead \o i \o x \o y \o z \o t \o <<"\n">> :
        i \in IndexFields, x \in NumberFields, y \in NumberFields,
        z \in NumberFields, t \in TailFields}
      \cup FreeLines \cup Lines

\* A line is about to be passed to _is_gro_coord.
InitClassify ==
    /\ pc = "parsing"
    /\ stream = "open"
    /\ consumed = << >>
    /\ xyzs = << >>
    /\ elements = << >>
    /\ atomname = << >>
    /\ comms = << >>
    /\ resid = << >>
    /\ resname = << >>
    /\ boxes = << >>
    /\ xyz = << >>
    /\ ln = 0
    /\ frame = 0
    /\ na = 0
    /\ error = NoError
    /\ self = NoObject
    /\ ret \in {[op |-> "call", arg |-> line, raised |-> "", value |-> << >>] :
                    line \in ClassifyLines}

\* _is_gro_coord(line) returns.
Classify ==
    /\ ret.op = "call"
    /\ ret' = [ret EXCEPT !.op = "_is_gro_coord",
                          !.value = <<_is_gro_coord(ret.arg)>>]
    /\ UNCHANGED <<pc, stream, consumed, locals, error, self>>

NextClassify == Classify

SpecClassify == InitClassify /\ [][NextClassify]_vars

\* The constructor, over every line of the catalogue.
Next == ConstructFrom(Lines, TitleLines)

Spec == Init /\ [][Next]_vars

\* The constructor over the well-formed lines, then any calls of the accessors.
AccessLines == {LineTitle, LineCount0, LineCount1, LineHW1, LineBox3}

NextAccess == ConstructFrom(AccessLines, {LineTitle}) \/ Access

SpecAccess == Init /\ [][NextAccess]_vars

\* ------------------------------------------------------------------------
\* Properties
\* ------------------------------------------------------------------------

Last(seq) == seq[Len(seq)]

\* The loop has ended: the stream was exhausted (rather than a line raising).
InputEnded == pc = "constructed" \/ (pc = "failed" /\ error.type = IndexError)

\* A line that is a coordinate line to the classifier and whose fixed columns
\* convert.
GoodAtomLine(line) ==
    /\ _is_gro_coord(line)
    /\ ~int_raises(HeaderField(line, 0))
    /\ ~PosRaises(line)

\* A line that is a box line to the classifier and whose tokens convert.
GoodBoxLine(line) == _is_gro_box(line) /\ ~BoxRaises(split(line))

\* The number of complete frames (title, count n, n atom lines, box line) at
\* the front of a sequence of lines.
RECURSIVE CompleteFrames(_)
CompleteFrames(ls) ==
    IF Len(ls) < 3 THEN 0
    ELSE IF int_raises(strip(ls[2])) THEN 0
    ELSE LET n == int(strip(ls[2]))
         IN  IF n < 0 \/ Len(ls) < n + 3 THEN 0
             ELSE IF /\ \A i \in 3..(n + 2) : GoodAtomLine(ls[i])
                     /\ GoodBoxLine(ls[n + 3])
             THEN 1 + CompleteFrames(SubSeq(ls, n + 4, Len(ls)))
             ELSE 0

\* C1: every input the parser accepts that contains N complete frames gives
\* an object with getNumFrames() = N, each of whose frames has as many
\* positions as the topology of frame 0 has atoms.
C1_FramesMatchTopology ==
    pc = "constructed" =>
        /\ Len(self._positions) = CompleteFrames(consumed)
        /\ \A f \in 1..Len(self._positions) :
              /\ Len(self._positions[f].value) = Len(self.atomNames)
              /\ Len(self._positions[f].value) = Len(self.residueIds)
              /\ Len(self._positions[f].value) = Len(self.residueNames)

\* The input is one valid frame and nothing else: title, count n, n atom
\* lines, one box line.
ValidSingleFrame(ls) ==
    /\ Len(ls) >= 3
    /\ ~int_raises(strip(ls[2]))
    /\ Len(ls) = int(strip(ls[2])) + 3
    /\ \A i \in 3..(Len(ls) - 1) : GoodAtomLine(ls[i])
    /\ GoodBoxLine(ls[Len(ls)])

\* C2: for a valid single-frame input the constructor succeeds with one frame
\* and the topology lists have as many entries as the second line declares.
C2_SingleFrame ==
    (pc # "parsing" /\ ValidSingleFrame(consumed)) =>
        /\ pc = "constructed"
        /\ Len(self._positions) = 1
        /\ Len(self.atomNames) = int(strip(consumed[2]))
        /\ Len(self.residueIds) = int(strip(consumed[2]))
        /\ Len(self.residueNames) = int(strip(consumed[2]))

\* The element the text of the format gives an atom name: the first character
\* followed by the rest without capitals and digits, looked up in the table,
\* None if the table does not hold it.
ExpectedElement(name) ==
    IF name = << >> THEN None
    ELSE LET sym == <<name[1]>> \o subUpperDigits(SliceFrom(name, 1))
         IN  IF sym \in ElementSymbols THEN Some([element |-> sym]) ELSE None

\* C3: while the constructor has not raised, elements has one entry per atom
\* seen, as atomname, resid and resname have, and entry i is that of atom i.
C3_ElementsAligned ==
    pc \in {"parsing", "constructed"} =>
        /\ Len(elements) = Len(atomname)
        /\ Len(atomname) = Len(resid)
        /\ Len(resid) = Len(resname)
        /\ \A i \in 1..Len(elements) :
              i <= Len(atomname) /\ elements[i] = ExpectedElement(atomname[i])

\* C4: a line at offset na + 2 that the classifier takes for a box line seals
\* the frame: a box of as many elements as the line has tokens and the
\* accumulated positions are stored, the frame counter goes up by one, and
\* the next line is a title.
C4_BoxLineSeals ==
    [][(/\ pc = "parsing"
        /\ consumed' # consumed
        /\ ln >= 2 /\ ln = na + 2
        /\ _is_gro_box(Last(consumed')))
       => (/\ pc' = "parsing"
           /\ Len(boxes') = Len(boxes) + 1
           /\ Len(Last(boxes').value) = Len(split(Last(consumed')))
           /\ xyzs' = Append(xyzs, Quantity(xyz))
           /\ frame' = frame + 1
           /\ ln' = 0)]_vars

\* C5: a line at an atom-record offset (2 <= ln <= na + 1) that is not a
\* coordinate line (a blank line included) makes the constructor raise the
\* "Unexpected line" exception with that line's text, without sealing a frame
\* or constructing an object; after a failure nothing more is consumed,
\* sealed or constructed.
C5_BadAtomLineFails ==
    [][/\ (/\ pc = "parsing"
           /\ consumed' # consumed
           /\ 2 <= ln /\ ln <= na + 1
           /\ ~_is_gro_coord(Last(consumed')))
          => (/\ pc' = "failed"
              /\ error' = [type |-> "Exception",
                           text |-> "Unexpected line in .gro file: ",
                           line |-> Last(consumed')]
              /\ xyzs' = xyzs /\ boxes' = boxes /\ frame' = frame
              /\ ~self'.exists)
       /\ pc = "failed"
          => (/\ pc' = "failed" /\ consumed' = consumed /\ xyzs' = xyzs
              /\ boxes' = boxes /\ frame' = frame /\ ~self'.exists)]_vars

\* C5 witness: the third line of a frame declaring one atom is blank and the
\* constructor has raised on it.
C5_Witness ==
    /\ pc = "failed"
    /\ error.type = "Exception"
    /\ error.line = LineBlank
    /\ ln = 2 /\ na = 1
    /\ Last(consumed) = LineBlank

\* C6: positions and boxes are stored only by sealing; when the input ends
\* inside a frame after at least one frame was sealed, the constructor
\* returns without error an object holding exactly the sealed frames.
C6_PartialFrameDropped ==
    [][/\ (xyzs' # xyzs \/ boxes' # boxes)
          => (/\ ln = na + 2 /\ ln' = 0 /\ frame' = frame + 1
              /\ consumed' # consumed
              /\ Len(xyzs') = Len(xyzs) + 1
              /\ Len(boxes') = Len(boxes) + 1)
       /\ (/\ pc = "parsing" /\ pc' # "parsing"
           /\ consumed' = consumed
           /\ ln > 0 /\ frame >= 1)
          => (/\ pc' = "constructed"
              /\ error' = NoError
              /\ Len(xyzs) = frame /\ Len(boxes) = frame
              /\ self'._positions = xyzs
              /\ self'._unitCellDimensions = boxes
              /\ Len(self'._positions) = frame)]_vars

\* C6 witness: an object with one frame, constructed from an input that ended
\* after an atom line of a second frame.
C6_Witness ==
    /\ pc = "constructed"
    /\ frame = 1 /\ ln > 2 /\ xyz # << >>
    /\ Len(self._positions) = 1
    /\ Len(self._unitCellDimensions) = 1

\* C7 as stated: when the input ends before any frame is sealed, the
\* constructor returns an object with zero frames.
C7_ZeroFrameModel ==
    (InputEnded /\ frame = 0) =>
        (pc = "constructed" /\ self.exists /\ Len(self._positions) = 0)

\* C7 amended: when the input ends before any frame is sealed, the constructor
\* raises IndexError at self.positions = xyzs[0] and no object is constructed;
\* every constructed object has at least one frame.
C7_NoFrameRaises ==
    /\ (InputEnded /\ frame = 0) =>
          (/\ pc = "failed"
           /\ error = [type |-> IndexError, text |-> "list index out of range",
                       line |-> << >>]
           /\ ~self.exists)
    /\ pc = "constructed" => Len(self._positions) >= 1

\* C7 witness: the input ended after the atom line of its only frame.
C7_Witness ==
    /\ pc = "failed" /\ error.type = IndexError
    /\ frame = 0 /\ ln > 2 /\ xyz # << >>

\* The array form and the native form of a frame hold the same numbers.
SameValues(array, native) ==
    /\ array.unit = native.unit
    /\ Len(array.value.rows) = Len(native.value)
    /\ \A i \in 1..Len(native.value) :
          array.value.rows[i] =
              <<native.value[i].x, native.value[i].y, native.value[i].z>>

\* C8: whatever calls came before, getPositions(asNumpy=True, frame=f)
\* returns the array made from the positions of frame f, which no call
\* changes: the same values on every call, equal to the native values of
\* getPositions(asNumpy=False, frame=f); every filled cache slot holds them.
C8_CacheTransparent ==
    /\ [](pc = "constructed" =>
            /\ (ret.op = "getPositions" /\ ret.asNumpy /\ ret.raised = "")
                  => /\ InRange(self._positions, ret.frame)
                     /\ ret.value[1] =
                          AsNumpy(self._positions[Pos(self._positions, ret.frame)])
                     /\ SameValues(ret.value[1],
                          self._positions[Pos(self._positions, ret.frame)])
            /\ self._numpyPositions.some
                  => \A k \in 1..Len(self._numpyPositions.val) :
                        self._numpyPositions.val[k].some
                            => SameValues(self._numpyPositions.val[k].val,
                                          self._positions[k]))
    /\ [][pc = "constructed" => self'._positions = self._positions]_vars

\* C8 witness: the array of the second of two different frames was asked for
\* after the array of the first had been cached.
C8_Witness ==
    /\ pc = "constructed"
    /\ Len(self._positions) = 2
    /\ self._positions[1] # self._positions[2]
    /\ ret.op = "getPositions" /\ ret.asNumpy /\ ret.frame = 1
    /\ ret.raised = ""
    /\ self._numpyPositions.some
    /\ self._numpyPositions.val[1].some
    /\ self._numpyPositions.val[2].some

\* C9: when the constructor has returned or raised, the stream it opened is
\* closed.
C9_StreamReleased == pc # "parsing" => stream = "closed"

\* C10: every frame-0 atom has its element stored: the table's element for the
\* first character of its name followed by the rest without capitals and
\* digits, None when the table does not hold that symbol, and the lookup
\* never raises.
C10_ElementInference ==
    /\ error.type # KeyError
    /\ pc \in {"parsing", "constructed"} =>
          \A i \in 1..Len(atomname) :
              /\ i <= Len(elements)
              /\ elements[i] = ExpectedElement(atomname[i])

\* C11: on a constructed object the public field positions is the positions
\* of frame 0, the value getPositions(frame=0) returns, however many frames
\* were sealed; sealing a later frame does not change the first sealed frame,
\* and no accessor changes the field.
C11_PositionsIsFrame0 ==
    /\ [](pc = "constructed" =>
            /\ self.positions = self._positions[1]
            /\ self.positions = xyzs[1]
            /\ (/\ ret.op = "getPositions" /\ ~ret.asNumpy
                /\ ret.frame = 0)
                  => (ret.raised = "" /\ ret.value[1] = self.positions))
    /\ [][/\ xyzs # << >> => (xyzs' # << >> /\ xyzs'[1] = xyzs[1])
          /\ pc = "constructed" => self'.positions = self.positions]_vars

\* C11 witness: two different frames were sealed and getPositions(frame=0)
\* has returned on the constructed object.
C11_Witness ==
    /\ pc = "constructed"
    /\ Len(self._positions) = 2
    /\ self._positions[1] # self._positions[2]
    /\ ret.op = "getPositions" /\ ~ret.asNumpy /\ ret.frame = 0
    /\ ret.raised = ""

\* ---- C12: what a coordinate line is ----

\* The line without the newline that ends it.
Content(line) ==
    IF line # << >> /\ line[Len(line)] = "\n"
    THEN SubSeq(line, 1, Len(line) - 1)
    ELSE line

\* An optional sign followed by one or more digits and nothing else.
PureInteger(w) ==
    \E sgn \in 0..1 :
        /\ Len(w) > sgn
        /\ sgn = 1 => w[1] \in SIGNS
        /\ \A i \in (sgn + 1)..Len(w) : w[i] \in DIGITS

\* Numeric-looking: an optional sign, digits, an optional point, digits, and
\* an optional exponent made of one of e, E, d, D and a pure integer; each of
\* the digit runs may be empty.
Numeric(w) ==
    \E sgn \in 0..1, b \in 0..Len(w), dot \in 0..1, d \in 0..Len(w) :
        /\ sgn <= b /\ b + dot <= d
        /\ sgn = 1 => (Len(w) >= 1 /\ w[1] \in SIGNS)
        /\ \A i \in (sgn + 1)..b : w[i] \in DIGITS
        /\ dot = 1 => w[b + 1] = "."
        /\ \A i \in (b + dot + 1)..d : w[i] \in DIGITS
        /\ \/ d = Len(w)
           \/ /\ w[d + 1] \in EXPCHARS
              /\ PureInteger(SubSeq(w, d + 2, Len(w)))

\* The two accepted shapes of a coordinate line.
CoordShape(line) ==
    LET t == split(line)
        n == Len(t)
    IN  \/ /\ n \in {6, 9}
           /\ PureInteger(t[3])
           /\ \A i \in 4..6 : Numeric(t[i])
        \/ /\ n \in {5, 8}
           /\ PureInteger(Slice(Content(line), 15, 20))
           /\ \A i \in 3..5 : Numeric(t[i])

C12_WitnessColumns ==
    /\ ret.op = "_is_gro_coord"
    /\ Len(split(ret.arg)) = 5
    /\ ret.value[1]

\* C13: coordinate lines are accepted only at offsets 2..na+1 of a frame: a
\* line at offset na+2 or later that is not a box line of 3 or 9 tokens, a
\* well-formed coordinate line included, makes the parse fail at that line, so
\* the positions accumulated for the current frame never exceed na.
C13_CoordOnlyInAtomRecords ==
    /\ [](ln >= 2 => Len(xyz) <= na)
    /\ [][(/\ pc = "parsing" /\ ln >= na + 2 /\ ln >= 2
           /\ consumed' # consumed
           /\ ~(/\ _is_gro_box(Last(consumed'))
                /\ Len(split(Last(consumed'))) \in {3, 9}))
             => (pc' = "failed" /\ error'.line = Last(consumed'))]_vars

\* ---- C14: where a frame is sealed ----

RECURSIVE FramesLength(_)
\* The number of lines of the sealed frames fs, were each made of a title, a
\* count, its atom records and a box line.
FramesLength(fs) ==
    IF fs = << >> THEN 0
    ELSE Len(Head(fs).value) + 3 + FramesLength(Tail(fs))

\* The step seals a frame.
Seals == xyzs' # xyzs \/ boxes' # boxes \/ frame' # frame

\* C14: a frame is sealed only by a line at offset exactly na+2 from the
\* frame's own title, na being the count on the frame's own second line, and
\* the sealed frame holds exactly na positions; a box-like line at any other
\* offset seals nothing.
C14_SealedAtOwnOffset ==
    [][LET title == FramesLength(xyzs) + 1
       IN  /\ Seals =>
                /\ consumed' = Append(consumed, Last(consumed'))
                /\ Len(consumed') = title + na + 2
                /\ ln = na + 2
                /\ ~int_raises(strip(consumed'[title + 1]))
                /\ na = int(strip(consumed'[title + 1]))
                /\ _is_gro_box(Last(consumed'))
                /\ Len(xyz) = na
                /\ xyzs' = Append(xyzs, Quantity(xyz))
                /\ Len(boxes') = Len(boxes) + 1
                /\ frame' = frame + 1
           /\ (/\ consumed' # consumed
               /\ _is_gro_box(Last(consumed'))
               /\ (ln # na + 2 \/ Len(consumed') # title + na + 2))
                 => ~Seals]_vars

\* C14 witness: two frames have been sealed, the second with a count (1)
\* different from that of the first (0).
C14_Witness ==
    /\ frame = 2 /\ ln = 0 /\ pc = "parsing"
    /\ Len(xyzs[1].value) = 0
    /\ Len(xyzs[2].value) = 1
    /\ Len(consumed) = 7

\* C15: once frame 0 is sealed, processing a line of a later frame leaves
\* elements, atomNames, residueIds and residueNames as they are; a coordinate
\* line of a frame >= 1 adds one position to the accumulator and nothing else.
C15_TopologyFromFrame0 ==
    [][frame >= 1 =>
         /\ UNCHANGED <<elements, atomname, resid, resname>>
         /\ (/\ consumed' # consumed /\ ln >= 2
             /\ _is_gro_coord(Last(consumed')))
               => /\ UNCHANGED <<comms, xyzs, boxes, frame, na>>
                  /\ \/ /\ pc' = "parsing"
                        /\ Len(xyz') = Len(xyz) + 1
                        /\ SubSeq(xyz', 1, Len(xyz)) = xyz
                     \/ /\ pc' = "failed" /\ error'.type = ValueError
                        /\ xyz' = xyz
         /\ pc' = "constructed" =>
              /\ self'.elements = elements
              /\ self'.atomNames = atomname
              /\ self'.residueIds = resid
              /\ self'.residueNames = resname]_vars

\* C15 witness: a coordinate line of the second frame has been processed, the
\* topology still being that of the one atom of frame 0.
C15_Witness ==
    /\ pc = "parsing" /\ frame = 1 /\ ln = 3
    /\ Len(xyz) = 1
    /\ Len(xyzs[1].value) = 1
    /\ Len(atomname) = 1 /\ Len(resid) = 1 /\ Len(resname) = 1
    /\ split(Last(consumed))[2] # atomname[1]

\* C16: a line at offset na+2 that the box pattern accepts but one of whose
\* tokens cannot be converted to a number makes the parse fail at that line
\* with a conversion error: no box and no positions are appended for the
\* frame and no object is constructed.
C16_BadBoxTokenFails ==
    [][(/\ pc = "parsing" /\ consumed' # consumed
        /\ ln >= 2 /\ ln = na + 2
        /\ _is_gro_box(Last(consumed'))
        /\ BoxRaises(split(Last(consumed'))))
          => /\ pc' = "failed"
             /\ error'.type = ValueError
             /\ error'.line = BadBoxToken(split(Last(consumed')))
             /\ UNCHANGED <<xyzs, boxes, frame>>
             /\ ~self'.exists]_vars

\* C17: no accessor changes the stored frames, boxes or topology;
\* getPositions(asNumpy=True, frame=f) fills at most the cache slot of frame
\* f and leaves every other slot as it was, and a slot once filled keeps its
\* value.
C17_AccessorsReadOnly ==
    [][pc = "constructed" =>
         LET old == CacheList(self)
             new == CacheList(self')
         IN  /\ self'.positions = self.positions
             /\ self'._positions = self._positions
             /\ self'._unitCellDimensions = self._unitCellDimensions
             /\ self'.elements = self.elements
             /\ self'.atomNames = self.atomNames
             /\ self'.residueIds = self.residueIds
             /\ self'.residueNames = self.residueNames
             /\ UNCHANGED <<xyzs, boxes, elements, atomname, resid, resname>>
             /\ Len(new) = Len(old)
             /\ \A k \in 1..Len(old) :
                  /\ old[k].some => new[k] = old[k]
                  /\ (~old[k].some /\ new[k].some) =>
                       /\ ret'.op = "getPositions" /\ ret'.asNumpy
                       /\ InRange(old, ret'.frame)
                       /\ k = Pos(old, ret'.frame)
                       /\ new[k].val = AsNumpy(self._positions[k])]_vars

\* C17 witness: of two frames, the array of the second has been made and
\* returned, the slot of the first still being empty.
C17_Witness ==
    /\ pc = "constructed"
    /\ Len(self._positions) = 2
    /\ self._numpyPositions.some
    /\ ~self._numpyPositions.val[1].some
    /\ self._numpyPositions.val[2].some
    /\ ret.op = "getPositions" /\ ret.asNumpy /\ ret.raised = ""
    /\ ret.value[1] = self._numpyPositions.val[2].val

\* ---- C18: frames and boxes are paired ----

\* In every state of the parse the sealed position sequences, the sealed
\* boxes and the frame counter agree in number, and the counter never
\* decreases; the object holds as many boxes as frames.
FramesPaired ==
    /\ [](/\ Len(xyzs) = frame /\ Len(boxes) = frame
          /\ pc = "constructed" =>
               /\ Len(self._positions) = frame
               /\ Len(self._unitCellDimensions) = frame)
    /\ [][frame' >= frame]_vars

\* A call of getPositions or getUnitCellDimensions has returned or raised.
FrameCall == ret.op \in {"getPositions", "getUnitCellDimensions"}

====
